---- MODULE Spec2Model ----
(***************************************************************************)
(* Model of the two-phase asynchronous URL processor                       *)
(* (src/async_url_processor.py): AsyncURLProcessor and ApproachMemory.     *)
(*                                                                         *)
(* One action is one atomic segment of a coroutine, from one suspension    *)
(* point of the asyncio event loop to the next.  Network replies are the   *)
(* environment's choice.  Wall-clock time is abstracted: a sleeping task   *)
(* is a task whose pc is "delay" or "error_delay".                         *)
(***************************************************************************)
EXTENDS Integers, Sequences, FiniteSets, TLC

(* ------------------------------ bounds -------------------------------- *)
\* Number of entries of the input URL list.
NumUrls == 3
\* Global concurrency limit N (constructor argument max_concurrent).
max_concurrent == 2
\* Error-path updates a domain takes in SpecDelay.
MaxDelayErrors == 6
\* Per-domain concurrency limit K (attribute max_domain_concurrent; the
\* code's default is 3, scaled down here so that the gate is contended).
max_domain_concurrent == 1
\* Delays are kept on a grid of 1/DelayScale seconds; the grid holds
\* ExactDecays consecutive multiplications by 0.8 without rounding (past
\* that a product is truncated to the grid, where a float is rounded).
ExactDecays == 8
\* Unexpected exceptions raised inside per-URL operations during one run.
MaxThrows == 1

(* ------------------------- program constants -------------------------- *)
min_count == 25
DelayScale == 2 * (5 ^ ExactDecays)
base_delay == DelayScale \div 2
max_delay == 10 * DelayScale
BackoffCap == 4

None == "none"

Min(a, b) == IF a <= b THEN a ELSE b
Max(a, b) == IF a >= b THEN a ELSE b
SeqToSet(s) == {s[k] : k \in 1..Len(s)}

(* ------------------------------ inputs -------------------------------- *)
\* URLs are records: netloc as written in the input, path as its segments,
\* tail as what follows the last segment (a trailing slash, a fragment, a
\* query), written as tokens.
UrlT(n, p, tl) == [netloc |-> n, path |-> p, tail |-> tl]
Url(n, p) == UrlT(n, p, <<>>)
UrlA == Url("A.com", <<"p">>)
UrlA2 == Url("a.com", <<"p", "c">>)
UrlB == Url("b.com", <<>>)
UrlSet == {UrlA, UrlA2, UrlB}

Lower(s) == IF s = "A.com" THEN "a.com" ELSE s
Domains == {Lower(u.netloc) : u \in UrlSet}

\* ApproachMemory.get_domain_from_url / AsyncURLProcessor._get_domain
get_domain_from_url(url) == Lower(url.netloc)

PlaywrightApproaches ==
    << "playwright_headless_no_proxy", "playwright_headless_proxy",
       "playwright_visible_no_proxy", "playwright_visible_proxy" >>

\* all_approaches of validate_single_url
all_approaches(pw) ==
    IF pw THEN <<"simple", "proxy">> \o PlaywrightApproaches
          ELSE <<"simple", "proxy">>


(* ---------------------- replies of the network ------------------------ *)
Statuses == {200, 204, 403, 404, 429, 500, 502, 503, 504}
\* match counts a page may show: one below the threshold, one at it
Counts == {min_count - 1, min_count}

Reply(k, s, rd, c) == [kind |-> k, status |-> s, readable |-> rd, count |-> c]

HttpReplies ==
    {Reply("http", s, TRUE, 0) : s \in Statuses \ {200}}
    \cup {Reply("http", 200, TRUE, c) : c \in Counts}
    \cup {Reply("http", 200, FALSE, 0)}
    \cup {Reply(k, 0, FALSE, 0) : k \in {"timeout", "client_error"}}

PageReplies ==
    {Reply("page", 0, TRUE, c) : c \in Counts}
    \cup {Reply("playwright_error", 0, FALSE, 0)}

Unsupported == Reply("unsupported", 0, FALSE, 0)

IsHttp(approach) == approach \in {"simple", "proxy"}
IsPlaywright(approach, pw) == approach \in SeqToSet(PlaywrightApproaches) /\ pw
\* _try_approach: the branches that reach the network
Supported(approach, pw) == IsHttp(approach) \/ IsPlaywright(approach, pw)
RepliesFor(approach) == IF IsHttp(approach) THEN HttpReplies ELSE PageReplies

\* Faulty variant: 403 is taken for a rate limit and sent to the retry path.
RetryStatuses_with_403 == {429, 503, 502, 504, 403}

\* status codes _process_response sends to the retry path
RetryStatuses == {429, 503, 502, 504}

\* Faulty variant: a count equal to the threshold is not enough.
TryResult_strict(r) ==
    CASE r.kind = "http" /\ r.status = 200 /\ ~r.readable -> "invalid"
      [] r.kind = "http" /\ r.status = 200 ->
            IF r.count > min_count THEN "true" ELSE "invalid"
      [] r.kind = "http" /\ r.status \in {429, 503, 502, 504} -> "false"
      [] r.kind = "http" -> "invalid"
      [] r.kind = "page" ->
            IF r.count > min_count THEN "true" ELSE "invalid"
      [] OTHER -> "false"

\* Faulty variant: every non-200 status is sent to the retry path.
TryResult_all_retry(r) ==
    CASE r.kind = "http" /\ r.status = 200 /\ ~r.readable -> "invalid"
      [] r.kind = "http" /\ r.status = 200 ->
            IF r.count >= min_count THEN "true" ELSE "invalid"
      [] r.kind = "page" ->
            IF r.count >= min_count THEN "true" ELSE "invalid"
      [] OTHER -> "false"

\* First component of the tuple _try_approach returns: True, "invalid", False
TryResult(r) ==
    CASE r.kind = "http" /\ r.status = 200 /\ ~r.readable -> "invalid"
      [] r.kind = "http" /\ r.status = 200 ->
            IF r.count >= min_count THEN "true" ELSE "invalid"
      [] r.kind = "http" /\ r.status \in RetryStatuses -> "false"
      [] r.kind = "http" -> "invalid"
      [] r.kind = "page" ->
            IF r.count >= min_count THEN "true" ELSE "invalid"
      [] OTHER -> "false"

\* Second component of that tuple
TryCount(r) ==
    IF (r.kind = "http" /\ r.status = 200 /\ r.readable) \/ r.kind = "page"
    THEN r.count ELSE 0

\* Whether the reply is handled inside "async with self._counter_lock"
NeedsLock(r) ==
    \/ r.kind = "http" /\ (r.status # 200 \/ r.readable)
    \/ r.kind \in {"page", "playwright_error"}

\* processed_count += 1 in _process_response / _try_playwright_approach
ProcessedInc(r) == IF NeedsLock(r) THEN 1 ELSE 0

\* error_count += 1 in _process_response / _try_playwright_approach
ErrorInc(r) ==
    IF \/ r.kind = "http" /\ r.status # 200 /\ r.status \notin RetryStatuses
       \/ r.kind = "playwright_error"
    THEN 1 ELSE 0

ValidRecord(url, r, approach) ==
    [url |-> url, count |-> TryCount(r), approach |-> approach]

\* valid_urls.append in _process_response / _try_playwright_approach
RecordValid(vu, url, r, approach) ==
    IF TryResult(r) = "true" THEN Append(vu, ValidRecord(url, r, approach)) ELSE vu

(* --------------------------- adaptive delay --------------------------- *)
\* Faulty variant: the exponent of the backoff is not capped.
ErrorDelay_uncapped(error_count_d) ==
    Min(base_delay * (2 ^ (error_count_d - 1)), max_delay)

\* adaptive_delay_for_domain(had_error=True): the new delay
ErrorDelay(error_count_d) ==
    Min(base_delay * (2 ^ Min(error_count_d - 1, BackoffCap)), max_delay)

\* Faulty variant: the decay without its floor.
SuccessDelay_no_floor(current_delay) == (current_delay * 8) \div 10

\* adaptive_delay_for_domain(had_error=False): the new delay
SuccessDelay(current_delay) ==
    IF current_delay > base_delay
    THEN Max((current_delay * 8) \div 10, base_delay)
    ELSE current_delay

(* -------------------------- candidate choice -------------------------- *)
InSeq(x, s) == \E k \in 1..Len(s) : s[k] = x

\* Faulty variant: the remembered approach is ignored.
SelectApproaches_no_memory(remembered, pw) == <<"simple", "proxy">>

\* Faulty variant: the remembered approach is trusted though unavailable.
SelectApproaches_unchecked(remembered, pw) ==
    IF remembered # None THEN <<remembered>> ELSE <<"simple", "proxy">>

\* validate_single_url: the list "approaches"
SelectApproaches(remembered, pw) ==
    IF remembered # None /\ InSeq(remembered, all_approaches(pw))
    THEN <<remembered>>
    ELSE <<"simple", "proxy">>

\* validate_single_url: "if not successful_approach or successful_approach != approach"
ShouldRecord(remembered, approach) == remembered = None \/ remembered # approach

\* Faulty variant: the retry always takes the first candidate.
RetryApproach_first(remembered, approaches_t) == approaches_t[1]

\* validate_single_url: retry_approach
RetryApproach(remembered, approaches_t) ==
    IF remembered # None THEN remembered ELSE approaches_t[1]

\* Faulty variant: a success does not leave the loop.
LoopStep_success_continues(ret, k, n) ==
    CASE ret = "invalid" -> "return_invalid"
      [] OTHER -> IF k < n THEN "next" ELSE "exhausted"

\* Faulty variant: an invalid reply does not leave the loop.
LoopStep_invalid_continues(ret, k, n) ==
    CASE ret = "true" -> "return_true"
      [] OTHER -> IF k < n THEN "next" ELSE "exhausted"

\* validate_single_url: the if / elif / else of the candidate loop
LoopStep(ret, k, n) ==
    CASE ret = "true" -> "return_true"
      [] ret = "invalid" -> "return_invalid"
      [] OTHER -> IF k < n THEN "next" ELSE "exhausted"

\* Faulty variant: the entry is appended twice.
EnqueueRetry_twice(queue, item) == Append(Append(queue, item), item)

\* retry_queue.append
EnqueueRetry(queue, item) == Append(queue, item)

(* ------------------- parent / child deduplication --------------------- *)
\* The text of a URL as tokens: each "/", "#" and "?" is a token of its own
\* and each maximal run of other characters is one token.
RECURSIVE PathTokens(_)
PathTokens(p) ==
    IF p = <<>> THEN <<>> ELSE <<"/", Head(p)>> \o PathTokens(Tail(p))
UrlTokens(u) ==
    <<"https:", "/", "/", u.netloc>> \o PathTokens(u.path) \o u.tail

\* len(str)
RECURSIVE StrLen(_)
StrLen(s) == IF s = <<>> THEN 0 ELSE Len(Head(s)) + StrLen(Tail(s))

\* str.rstrip('/')
RECURSIVE RStripSlash(_)
RStripSlash(s) ==
    IF s # <<>> /\ s[Len(s)] = "/"
    THEN RStripSlash(SubSeq(s, 1, Len(s) - 1))
    ELSE s

\* str.split(c)[0]
SplitFirst(s, c) ==
    LET at == {k \in 1..Len(s) : s[k] = c} IN
    IF at = {} THEN s
    ELSE SubSeq(s, 1, (CHOOSE k \in at : \A j \in at : k <= j) - 1)

\* deduplicate_parent_child_urls: url.rstrip('/').split('#')[0].split('?')[0]
clean_url(s) == SplitFirst(SplitFirst(RStripSlash(s), "#"), "?")

\* str.startswith(prefix)
StartsWith(s, prefix) ==
    Len(prefix) <= Len(s) /\ SubSeq(s, 1, Len(prefix)) = prefix

\* len([seg for seg in normalized_url.split('/')[3:] if seg])
path_segments(s) ==
    LET slashes == {k \in 1..Len(s) : s[k] = "/"} IN
    IF Cardinality(slashes) < 3 THEN 0
    ELSE LET third == CHOOSE k \in slashes :
                          Cardinality({j \in slashes : j < k}) = 2
         IN Cardinality({k \in (third + 1)..Len(s) : s[k] # "/"})

\* list.sort(key=lambda x: len(x[0])): stable, shortest first
RECURSIVE SortByLen(_)
SortByLen(ps) ==
    IF ps = <<>> THEN <<>>
    ELSE LET x == ps[Len(ps)]
             sorted == SortByLen(SubSeq(ps, 1, Len(ps) - 1))
             at == Cardinality({j \in 1..Len(sorted) :
                                   StrLen(sorted[j][1]) <= StrLen(x[1])})
         IN SubSeq(sorted, 1, at) \o <<x>> \o SubSeq(sorted, at + 1, Len(sorted))

\* Faulty variant: a URL of any depth, the bare homepage too, excludes.
IsMeaningfulParent_any(n) == TRUE

\* "if path_segments >= 1"
IsMeaningfulParent(n) == path_segments(n) >= 1

\* the loop over normalized_urls, from its k-th pair on
RECURSIVE Sweep(_, _, _, _)
Sweep(ps, k, urls_to_keep, excluded_urls) ==
    IF k > Len(ps) THEN urls_to_keep
    ELSE LET normalized_url == ps[k][1]
             original_url == ps[k][2]
             children ==
                 IF IsMeaningfulParent(normalized_url)
                 THEN {ps[j][1] : j \in
                         {j \in 1..Len(ps) :
                             /\ ps[j][1] # normalized_url
                             /\ StartsWith(ps[j][1], Append(normalized_url, "/"))
                             /\ ps[j][1] \notin excluded_urls}}
                 ELSE {}
         IN IF normalized_url \in excluded_urls
            THEN Sweep(ps, k + 1, urls_to_keep, excluded_urls)
            ELSE Sweep(ps, k + 1, Append(urls_to_keep, original_url),
                       excluded_urls \cup children)

deduplicate_parent_child_urls(list) ==
    IF list = <<>> THEN list
    ELSE Sweep(SortByLen([k \in 1..Len(list) |->
                             <<clean_url(UrlTokens(list[k])), list[k]>>]),
               1, <<>>, {})

(* ------------------------------- state -------------------------------- *)
VARIABLES
    urls,                 \* the input list handed to process_all_urls_async
    PLAYWRIGHT_AVAILABLE, \* module flag set at import
    phase,                \* position of process_all_urls_async
    semaphore,            \* free permits of the global asyncio.Semaphore
    domain_semaphores,    \* free permits of each domain's semaphore
    domain_delays,        \* self.domain_delays
    domain_error_counts,  \* self.domain_error_counts
    memory,               \* self.approach_memory.memory
    counter_lock,         \* holder of self._counter_lock (0: free)
    lock_waiters,         \* FIFO of tasks waiting for self._counter_lock
    processed_count, valid_count, error_count,
    retry_processed, retry_success,
    retry_queue,          \* self.retry_queue
    valid_urls,           \* self.valid_urls
    pc,                   \* position of each validate_single_url task
    successful_approach,  \* local of validate_single_url
    approaches,           \* local of validate_single_url
    cand,                 \* index of the loop "for approach in approaches"
    had_error,            \* local of validate_single_url
    rpc,                  \* position of each retry_single_url task
    rpending,             \* reply a retry task holds while it waits for the lock
    attempts,             \* history: the attempts of each phase-1 task
    rattempts,            \* history: the attempts of each phase-2 task
    last_class,           \* history: the class of the reply this step handled
    throws,               \* exceptions raised so far inside per-URL operations
    written               \* the result lines of valid_urls.txt, in file order

shared == << semaphore, domain_semaphores, domain_delays, domain_error_counts,
             memory, counter_lock, lock_waiters >>
counters == << processed_count, valid_count, error_count,
               retry_processed, retry_success >>
stores == << retry_queue, valid_urls >>
locals1 == << pc, successful_approach, approaches, cand, had_error, attempts >>
locals2 == << rpc, rpending, rattempts >>
history == << last_class >>
env == << urls, PLAYWRIGHT_AVAILABLE, throws, written >>
vars == << env, phase, shared, counters, stores, locals1, locals2, history >>

Tasks == 1..NumUrls

\* The input list (not deduplicated): the same a.com URL twice, then other
\* a.com URLs, then one b.com URL.  Tasks start together and are scheduled
\* in any order, so the order of the list is immaterial.
InputLists ==
    { [t \in Tasks |-> IF t = NumUrls THEN UrlB
                       ELSE IF t <= 2 THEN UrlA ELSE UrlA2] }
\* Start configurations << PLAYWRIGHT_AVAILABLE, memory entry of a.com >>: the
\* contents of the memory file when the run starts (_load_memory, then
\* test_approaches_sequentially, which may add one learned entry).  The flag
\* only matters to a remembered playwright approach, so configurations that
\* behave alike are listed once.
StartConfigs ==
    { <<FALSE, None>>, <<FALSE, "proxy">>,
      <<FALSE, "playwright_headless_proxy">>,
      <<TRUE, "playwright_headless_proxy">> }

\* AsyncURLProcessor.__init__ and the start of process_all_urls_async
Fresh ==
    /\ phase = "phase1"
    /\ semaphore = max_concurrent
    /\ domain_semaphores = [d \in Domains |-> max_domain_concurrent]
    /\ domain_delays = [d \in Domains |-> base_delay]
    /\ domain_error_counts = [d \in Domains |-> 0]
    /\ counter_lock = 0
    /\ lock_waiters = <<>>
    /\ processed_count = 0 /\ valid_count = 0 /\ error_count = 0
    /\ retry_processed = 0 /\ retry_success = 0
    /\ retry_queue = <<>>
    /\ valid_urls = <<>>
    /\ pc = [t \in Tasks |-> "pending"]
    /\ successful_approach = [t \in Tasks |-> None]
    /\ approaches = [t \in Tasks |-> <<>>]
    /\ cand = [t \in Tasks |-> 0]
    /\ had_error = [t \in Tasks |-> FALSE]
    /\ rpc = [t \in Tasks |-> "none"]
    /\ rpending = [t \in Tasks |-> Unsupported]
    /\ attempts = [t \in Tasks |-> <<>>]
    /\ rattempts = [t \in Tasks |-> <<>>]
    /\ last_class = "none"
    /\ throws = 0
    /\ written = <<>>

Init ==
    /\ urls \in InputLists
    /\ \E c \in StartConfigs :
          /\ PLAYWRIGHT_AVAILABLE = c[1]
          /\ memory = [d \in Domains |-> IF d = "a.com" THEN c[2] ELSE None]
    /\ Fresh

(* ------------------------------- gates -------------------------------- *)
\* Faulty variants: a gate that admits without looking at its permits.
GlobalGateOpen_unchecked == TRUE
DomainGateOpen_unchecked(d) == TRUE

\* asyncio.Semaphore.acquire returns at once only while a permit is left
GlobalGateOpen == semaphore > 0
DomainGateOpen(d) == domain_semaphores[d] > 0

\* Faulty variant: "async with self._counter_lock" entered whoever holds it.
LockFree_unchecked == TRUE

\* asyncio.Lock.acquire returns at once, without suspending, only while the
\* lock is not held
LockFree == counter_lock = 0

\* Faulty variant: the request is sent as soon as the host gate is entered.
AdmissionWait_skipped == "attempt"

\* adaptive_delay_for_domain: "await asyncio.sleep(total_delay)", where a
\* task that has entered its host gate is suspended before its first attempt
AdmissionWait == "delay"

\* adaptive_delay_for_domain(domain, had_error=False) up to its sleep
SuccessPathUpdate(d) ==
    /\ domain_delays' = [domain_delays EXCEPT ![d] = SuccessDelay(@)]
    /\ UNCHANGED domain_error_counts

\* "async with domain_semaphore:" entered, then the success-path delay
EnterDomain(d) ==
    /\ domain_semaphores' = [domain_semaphores EXCEPT ![d] = @ - 1]
    /\ SuccessPathUpdate(d)

\* Faulty variant: the error path neither counts the error nor backs off.
ErrorPathUpdate_skipped(d) == UNCHANGED << domain_error_counts, domain_delays >>

\* adaptive_delay_for_domain(domain, had_error=True) up to its sleep
ErrorPathUpdate(d) ==
    /\ domain_error_counts' = [domain_error_counts EXCEPT ![d] = @ + 1]
    /\ domain_delays' =
          [domain_delays EXCEPT ![d] = ErrorDelay(domain_error_counts[d] + 1)]

\* Faulty variant: the task returns with both permits in its hands.
ReleaseGates_kept(d) == UNCHANGED << domain_semaphores, semaphore >>

\* leaving "async with domain_semaphore" and then "async with semaphore"
ReleaseGates(d) ==
    /\ domain_semaphores' = [domain_semaphores EXCEPT ![d] = @ + 1]
    /\ semaphore' = semaphore + 1

\* The response class of the error taxonomy, kept in the attempt history.
ResponseClass(r) ==
    CASE r.kind \in {"timeout", "client_error"} -> "Transport"
      [] r.kind = "http" /\ r.status = 200 /\ ~r.readable -> "ClassifierError"
      [] r.kind = "http" /\ r.status = 200 -> "Ok"
      [] r.kind = "http" /\ r.status \in {429, 502, 503, 504} -> "ServerRetryable"
      [] r.kind = "http" -> "ServerFatal"
      [] r.kind = "page" -> "Ok"
      [] r.kind = "playwright_error" -> "Transport"
      [] OTHER -> "StrategyUnsupported"

Attempt(approach, r) ==
    [approach |-> approach, ret |-> TryResult(r)]

(* ---------------------- phase 1: validate_single_url ------------------- *)
\* "async with semaphore", get_domain_semaphore, "async with
\* domain_semaphore" when a permit is free, the success-path delay update.
Dispatch(t) ==
    LET d == get_domain_from_url(urls[t]) IN
    /\ phase = "phase1" /\ pc[t] = "pending"
    /\ GlobalGateOpen
    /\ semaphore' = semaphore - 1
    /\ IF DomainGateOpen(d)
       THEN /\ EnterDomain(d)
            /\ pc' = [pc EXCEPT ![t] = AdmissionWait]
       ELSE /\ pc' = [pc EXCEPT ![t] = "wait_domain"]
            /\ UNCHANGED << domain_semaphores, domain_delays, domain_error_counts >>
    /\ UNCHANGED << env, phase, memory, counter_lock, lock_waiters, counters,
                    stores, successful_approach, approaches, cand, had_error,
                    attempts, locals2 >>
    /\ last_class' = "none"

\* A task blocked on its domain's semaphore gets a permit.
AcquireDomain(t) ==
    LET d == get_domain_from_url(urls[t]) IN
    /\ phase = "phase1" /\ pc[t] = "wait_domain"
    /\ DomainGateOpen(d)
    /\ EnterDomain(d)
    /\ pc' = [pc EXCEPT ![t] = AdmissionWait]
    /\ UNCHANGED << env, phase, semaphore, memory, counter_lock, lock_waiters,
                    counters, stores, successful_approach, approaches, cand,
                    had_error, attempts, locals2 >>
    /\ last_class' = "none"

\* The sleep of the dispatch delay ends: read the memory, build the
\* candidate list, send the first candidate's request.
AfterDelay(t) ==
    LET d == get_domain_from_url(urls[t]) IN
    /\ phase = "phase1" /\ pc[t] = "delay"
    /\ successful_approach' = [successful_approach EXCEPT ![t] = memory[d]]
    /\ approaches' =
          [approaches EXCEPT ![t] = SelectApproaches(memory[d], PLAYWRIGHT_AVAILABLE)]
    /\ had_error' = [had_error EXCEPT ![t] = FALSE]
    /\ cand' = [cand EXCEPT ![t] = 1]
    /\ pc' = [pc EXCEPT ![t] = "attempt"]
    /\ UNCHANGED << env, phase, shared, counters, stores, attempts, locals2 >>
    /\ last_class' = "none"

\* The reply to the candidate in flight arrives: _try_approach returns
\* (through _process_response or _try_playwright_approach) and the loop
\* body runs up to the next suspension point.
Respond(t, r) ==
    LET d == get_domain_from_url(urls[t])
        approach == approaches[t][cand[t]]
        ret == TryResult(r)
        step == LoopStep(ret, cand[t], Len(approaches[t]))
    IN
    /\ phase = "phase1" /\ pc[t] = "attempt"
    /\ r \in RepliesFor(approach)
    /\ LockFree
    /\ processed_count' = processed_count + ProcessedInc(r)
    /\ error_count' = error_count + ErrorInc(r)
    /\ valid_count' = valid_count + (IF ret = "true" THEN 1 ELSE 0)
    /\ valid_urls' = RecordValid(valid_urls, urls[t], r, approach)
    /\ attempts' = [attempts EXCEPT ![t] = Append(@, Attempt(approach, r))]
    /\ last_class' = ResponseClass(r)
    /\ CASE step = "return_true" ->
              /\ memory' = IF ShouldRecord(successful_approach[t], approach)
                           THEN [memory EXCEPT ![d] = approach] ELSE memory
              /\ pc' = [pc EXCEPT ![t] = "success"]
              /\ ReleaseGates(d)
              /\ UNCHANGED << domain_delays, domain_error_counts, cand, had_error >>
         [] step = "return_invalid" ->
              /\ pc' = [pc EXCEPT ![t] = "invalid"]
              /\ ReleaseGates(d)
              /\ UNCHANGED << memory, domain_delays, domain_error_counts, cand,
                              had_error >>
         [] step = "next" ->
              /\ had_error' = [had_error EXCEPT ![t] = TRUE]
              /\ cand' = [cand EXCEPT ![t] = @ + 1]
              /\ UNCHANGED << pc, memory, semaphore, domain_semaphores,
                              domain_delays, domain_error_counts >>
         [] OTHER ->
              \* the loop is exhausted: "if had_error:" holds, error-path delay
              /\ had_error' = [had_error EXCEPT ![t] = TRUE]
              /\ ErrorPathUpdate(d)
              /\ pc' = [pc EXCEPT ![t] = "error_delay"]
              /\ UNCHANGED << memory, semaphore, domain_semaphores, cand >>
    /\ UNCHANGED << env, phase, counter_lock, lock_waiters, retry_processed,
                    retry_success, retry_queue, successful_approach,
                    approaches, locals2 >>

\* The sleep of the error-path delay ends: counters and retry queue under
\* the counter lock, return (False, 0, url), both gates released.
AfterErrorDelay(t) ==
    LET d == get_domain_from_url(urls[t]) IN
    /\ phase = "phase1" /\ pc[t] = "error_delay"
    /\ LockFree
    /\ processed_count' = processed_count + 1
    /\ error_count' = error_count + 1
    /\ retry_queue' = EnqueueRetry(retry_queue,
          [url |-> urls[t],
           approach |-> RetryApproach(successful_approach[t], approaches[t]),
           domain |-> d])
    /\ pc' = [pc EXCEPT ![t] = "failed"]
    /\ ReleaseGates(d)
    /\ UNCHANGED << env, phase, domain_delays, domain_error_counts, memory,
                    counter_lock, lock_waiters, valid_count, retry_processed,
                    retry_success, valid_urls, successful_approach, approaches,
                    cand, had_error, attempts, locals2 >>
    /\ last_class' = "none"

Terminal == {"success", "invalid", "failed"}
\* Faulty variant: a coroutine that ended in its handler is not taken as
\* finished.
Returned_no_error == Terminal

\* positions of a coroutine that has returned: with one of the outcomes
\* above, or from its "except Exception" handler
Returned == Terminal \cup {"error"}

(* ----------------------- process_all_urls_async ---------------------- *)
\* Faulty variant: the batch is left as soon as one task has returned.
Phase1Gathered_first == \E t \in Tasks : pc[t] \in Returned

\* "results = await asyncio.gather(*tasks, return_exceptions=True)" returns
\* when every phase-1 task has returned
Phase1Gathered == \A t \in Tasks : pc[t] \in Returned

\* asyncio.gather over the phase-1 tasks has returned; "if self.retry_queue:"
Phase1Complete ==
    /\ phase = "phase1"
    /\ Phase1Gathered
    /\ IF retry_queue # <<>>
       THEN /\ phase' = "phase2"
            /\ rpc' = [i \in Tasks |-> IF i <= Len(retry_queue) THEN "pending"
                                                               ELSE "none"]
       ELSE /\ phase' = "report"
            /\ UNCHANGED rpc
    /\ UNCHANGED << env, shared, counters, stores, locals1, rpending, rattempts >>
    /\ last_class' = "none"

\* asyncio.gather over the retry tasks has returned
Phase2Complete ==
    /\ phase = "phase2"
    /\ \A i \in Tasks : rpc[i] \in Returned \cup {"none"}
    /\ phase' = "report"
    /\ UNCHANGED << env, shared, counters, stores, locals1, locals2 >>
    /\ last_class' = "none"

\* Faulty variant: the records are written in the order of the result store.
SortByCount_unsorted(items) == items

\* sorted(self.valid_urls, key=lambda x: x['count'], reverse=True): stable,
\* highest count first
RECURSIVE SortByCount(_)
SortByCount(items) ==
    IF items = <<>> THEN <<>>
    ELSE LET x == items[Len(items)]
             sorted == SortByCount(SubSeq(items, 1, Len(items) - 1))
             at == Cardinality({j \in 1..Len(sorted) : sorted[j].count >= x.count})
         IN SubSeq(sorted, 1, at) \o <<x>> \o SubSeq(sorted, at + 1, Len(sorted))

\* save_progress: one line "url (count: n) (approach: a)" per record, in
\* the sorted order
save_progress(vu) == SortByCount(vu)

\* process_all_urls_async after the phases: the final figures, then the
\* parent/child deduplication of the valid results (the result store and the
\* valid counter are replaced only when it removed something), then
\* save_progress.
Report ==
    LET valid_url_list == [k \in 1..Len(valid_urls) |-> valid_urls[k].url]
        deduplicated_valid_urls == deduplicate_parent_child_urls(valid_url_list)
        deduplicated_data ==
            [k \in 1..Len(deduplicated_valid_urls) |->
                valid_urls[CHOOSE j \in 1..Len(valid_urls) :
                              /\ valid_urls[j].url = deduplicated_valid_urls[k]
                              /\ \A i \in 1..(j - 1) :
                                    valid_urls[i].url # deduplicated_valid_urls[k]]]
        removed_count == Len(valid_urls) - Len(deduplicated_data)
    IN
    /\ phase = "report"
    /\ IF processed_count + retry_processed = 0
       THEN \* "self.valid_count/total_processed*100" raises ZeroDivisionError
            /\ phase' = "crashed"
            /\ UNCHANGED << valid_urls, valid_count, written >>
       ELSE /\ phase' = "done"
            /\ IF valid_urls # <<>> /\ removed_count > 0
               THEN /\ valid_urls' = deduplicated_data
                    /\ valid_count' = Len(deduplicated_data)
               ELSE UNCHANGED << valid_urls, valid_count >>
            /\ written' = save_progress(valid_urls')
    /\ UNCHANGED << urls, PLAYWRIGHT_AVAILABLE, throws, shared, processed_count,
                    error_count, retry_processed, retry_success, retry_queue,
                    locals1, locals2 >>
    /\ last_class' = "none"

(* ----------------------- phase 2: retry_single_url --------------------- *)
\* asyncio.Lock.release: the lock passes to the first waiter, if any
ReleaseLock ==
    IF lock_waiters = <<>>
    THEN counter_lock' = 0 /\ UNCHANGED lock_waiters
    ELSE counter_lock' = Head(lock_waiters) /\ lock_waiters' = Tail(lock_waiters)

RetryDispatch(i) ==
    LET d == retry_queue[i].domain IN
    /\ phase = "phase2" /\ rpc[i] = "pending"
    /\ GlobalGateOpen
    /\ semaphore' = semaphore - 1
    /\ IF DomainGateOpen(d)
       THEN /\ EnterDomain(d)
            /\ rpc' = [rpc EXCEPT ![i] = AdmissionWait]
       ELSE /\ rpc' = [rpc EXCEPT ![i] = "wait_domain"]
            /\ UNCHANGED << domain_semaphores, domain_delays, domain_error_counts >>
    /\ UNCHANGED << env, phase, memory, counter_lock, lock_waiters, counters,
                    stores, locals1, rpending, rattempts >>
    /\ last_class' = "none"

RetryAcquireDomain(i) ==
    LET d == retry_queue[i].domain IN
    /\ phase = "phase2" /\ rpc[i] = "wait_domain"
    /\ DomainGateOpen(d)
    /\ EnterDomain(d)
    /\ rpc' = [rpc EXCEPT ![i] = AdmissionWait]
    /\ UNCHANGED << env, phase, semaphore, memory, counter_lock, lock_waiters,
                    counters, stores, locals1, rpending, rattempts >>
    /\ last_class' = "none"

\* Faulty variant: a recovered URL is counted but not stored.
RetryStore_dropped(vu, url, r, approach) == vu

\* retry_single_url: self.valid_urls.append on "success is True"
RetryStore(vu, url, r, approach) ==
    IF TryResult(r) = "true" THEN Append(vu, ValidRecord(url, r, approach)) ELSE vu

\* The retry task holds the counter lock (it was free, or was handed over):
\* the locked section of _process_response / _try_playwright_approach when
\* "inner" is set, then the locked section of retry_single_url.
RetryLocked(i, r, inner) ==
    LET d == retry_queue[i].domain
        url == retry_queue[i].url
        approach == retry_queue[i].approach
        ret == TryResult(r)
        vu == IF inner THEN RecordValid(valid_urls, url, r, approach) ELSE valid_urls
    IN
    /\ processed_count' = processed_count + (IF inner THEN ProcessedInc(r) ELSE 0)
    /\ error_count' = error_count + (IF inner THEN ErrorInc(r) ELSE 0)
    /\ retry_processed' = retry_processed + 1
    /\ retry_success' = retry_success + (IF ret = "true" THEN 1 ELSE 0)
    /\ valid_count' = valid_count + (IF inner /\ ret = "true" THEN 1 ELSE 0)
                                  + (IF ret = "true" THEN 1 ELSE 0)
    /\ valid_urls' = RetryStore(vu, url, r, approach)
    /\ IF ret = "false"
       THEN \* adaptive_delay_for_domain(had_error=True) inside the lock
            /\ ErrorPathUpdate(d)
            /\ counter_lock' = i
            /\ rpc' = [rpc EXCEPT ![i] = "error_delay"]
            /\ UNCHANGED << lock_waiters, semaphore, domain_semaphores >>
       ELSE /\ rpc' = [rpc EXCEPT ![i] = IF ret = "true" THEN "success"
                                                        ELSE "invalid"]
            /\ ReleaseLock
            /\ ReleaseGates(d)
            /\ UNCHANGED << domain_delays, domain_error_counts >>

\* _try_approach has returned with reply r; the task goes on to the first
\* "async with self._counter_lock" on its way, or queues for it.
RetryContinue(i, r) ==
    /\ rattempts' =
          [rattempts EXCEPT ![i] = Append(@, Attempt(retry_queue[i].approach, r))]
    /\ last_class' = ResponseClass(r)
    /\ IF LockFree
       THEN /\ RetryLocked(i, r, NeedsLock(r))
            /\ UNCHANGED rpending
       ELSE /\ rpc' = [rpc EXCEPT ![i] = IF NeedsLock(r) THEN "wait_inner"
                                                         ELSE "wait_outer"]
            /\ rpending' = [rpending EXCEPT ![i] = r]
            /\ lock_waiters' = Append(lock_waiters, i)
            /\ UNCHANGED << counter_lock, semaphore, domain_semaphores,
                            domain_delays, domain_error_counts, counters,
                            valid_urls >>
    /\ UNCHANGED << env, phase, memory, retry_queue, locals1 >>

\* The sleep of the dispatch delay ends: the queue entry's approach is sent,
\* or _try_approach returns at once for an approach it does not support.
RetryAfterDelay(i) ==
    /\ phase = "phase2" /\ rpc[i] = "delay"
    /\ IF Supported(retry_queue[i].approach, PLAYWRIGHT_AVAILABLE)
       THEN /\ rpc' = [rpc EXCEPT ![i] = "attempt"]
            /\ UNCHANGED << env, phase, shared, counters, stores, locals1,
                            rpending, rattempts >>
            /\ last_class' = "none"
       ELSE RetryContinue(i, Unsupported)

RetryRespond(i, r) ==
    /\ phase = "phase2" /\ rpc[i] = "attempt"
    /\ r \in RepliesFor(retry_queue[i].approach)
    /\ RetryContinue(i, r)

\* A queued retry task is handed the counter lock.
RetryLockGranted(i) ==
    LET r == rpending[i]
        url == retry_queue[i].url
        approach == retry_queue[i].approach
    IN
    /\ phase = "phase2" /\ rpc[i] \in {"wait_inner", "wait_outer"}
    /\ counter_lock = i
    /\ IF rpc[i] = "wait_inner" /\ lock_waiters # <<>>
       THEN \* the inner section only: others queue ahead for the lock
            /\ processed_count' = processed_count + ProcessedInc(r)
            /\ error_count' = error_count + ErrorInc(r)
            /\ valid_count' = valid_count + (IF TryResult(r) = "true" THEN 1 ELSE 0)
            /\ valid_urls' = RecordValid(valid_urls, url, r, approach)
            /\ counter_lock' = Head(lock_waiters)
            /\ lock_waiters' = Append(Tail(lock_waiters), i)
            /\ rpc' = [rpc EXCEPT ![i] = "wait_outer"]
            /\ UNCHANGED << semaphore, domain_semaphores, domain_delays,
                            domain_error_counts, retry_processed, retry_success >>
       ELSE RetryLocked(i, r, rpc[i] = "wait_inner")
    /\ rpending' = [rpending EXCEPT ![i] =
                        IF rpc'[i] = "wait_outer" THEN r ELSE Unsupported]
    /\ UNCHANGED << env, phase, memory, retry_queue, locals1, rattempts >>
    /\ last_class' = "none"

\* The sleep of the error-path delay ends, still inside the counter lock:
\* return (False, 0, url), lock and gates released.
RetryAfterErrorDelay(i) ==
    LET d == retry_queue[i].domain IN
    /\ phase = "phase2" /\ rpc[i] = "error_delay"
    /\ rpc' = [rpc EXCEPT ![i] = "failed"]
    /\ ReleaseLock
    /\ ReleaseGates(d)
    /\ UNCHANGED << env, phase, domain_delays, domain_error_counts, memory,
                    counters, stores, locals1, rpending, rattempts >>
    /\ last_class' = "none"

Next ==
    \/ \E t \in Tasks :
        \/ Dispatch(t)
        \/ AcquireDomain(t)
        \/ AfterDelay(t)
        \/ \E r \in HttpReplies \cup PageReplies : Respond(t, r)
        \/ AfterErrorDelay(t)
    \/ Phase1Complete
    \/ \E i \in Tasks :
        \/ RetryDispatch(i)
        \/ RetryAcquireDomain(i)
        \/ RetryAfterDelay(i)
        \/ \E r \in HttpReplies \cup PageReplies : RetryRespond(i, r)
        \/ RetryLockGranted(i)
        \/ RetryAfterErrorDelay(i)
    \/ Phase2Complete
    \/ Report

Spec == Init /\ [][Next]_vars

(* ------------- the deduplication applied to a valid list --------------- *)
\* longest valid list handed to the deduplication
MaxList == 4

\* URLs of one site: the homepage, a category with and without a trailing
\* slash or a fragment, its children (one with a query), another category.
DedupUrls ==
    { Url("x", <<>>), Url("x", <<"a">>), UrlT("x", <<"a">>, <<"/">>),
      UrlT("x", <<"a">>, <<"/", "#", "f">>),
      Url("x", <<"a", "b">>), UrlT("x", <<"a", "b">>, <<"?", "q">>),
      Url("x", <<"a", "c">>), Url("x", <<"root">>) }

RECURSIVE ListsUpTo(_, _)
ListsUpTo(S, n) ==
    IF n = 0 THEN { <<>> }
    ELSE LET shorter == ListsUpTo(S, n - 1) IN
         shorter \cup { Append(l, x) : l \in { m \in shorter : Len(m) = n - 1 },
                                       x \in S }

\* Both phases are over and self.valid_urls holds a record for each URL of
\* a list; the report applies deduplicate_parent_child_urls to it.  The
\* per-operation variables are not read by the report.
AtReport(records) ==
    /\ urls \in InputLists
    /\ PLAYWRIGHT_AVAILABLE = FALSE
    /\ valid_urls = records
    /\ valid_count = Len(records)
    /\ processed_count = Len(records)
    /\ phase = "report"
    /\ memory = [d \in Domains |-> None]
    /\ semaphore = max_concurrent
    /\ domain_semaphores = [d \in Domains |-> max_domain_concurrent]
    /\ domain_delays = [d \in Domains |-> base_delay]
    /\ domain_error_counts = [d \in Domains |-> 0]
    /\ counter_lock = 0
    /\ lock_waiters = <<>>
    /\ error_count = 0 /\ retry_processed = 0 /\ retry_success = 0
    /\ retry_queue = <<>>
    /\ pc = [t \in Tasks |-> "success"]
    /\ successful_approach = [t \in Tasks |-> None]
    /\ approaches = [t \in Tasks |-> <<"simple", "proxy">>]
    /\ cand = [t \in Tasks |-> 1]
    /\ had_error = [t \in Tasks |-> FALSE]
    /\ rpc = [t \in Tasks |-> "none"]
    /\ rpending = [t \in Tasks |-> Unsupported]
    /\ attempts = [t \in Tasks |-> <<>>]
    /\ rattempts = [t \in Tasks |-> <<>>]
    /\ last_class = "none"
    /\ throws = 0
    /\ written = <<>>

InitDedup ==
    \E list \in ListsUpTo(DedupUrls, MaxList) :
        AtReport([k \in 1..Len(list) |->
                     [url |-> list[k], count |-> min_count, approach |-> "simple"]])

NextDedup == Report

SpecDedup == InitDedup /\ [][NextDedup]_vars

(* ------------------- the report of a valid list ------------------------ *)
\* match counts of valid pages: the threshold and above it
ReportCounts == {min_count, min_count + 1, min_count + 2}

\* valid records of a category, a child of it and another category
ReportRecords ==
    { [url |-> u, count |-> c, approach |-> "simple"] :
        u \in { Url("x", <<"a">>), Url("x", <<"a", "b">>), Url("x", <<"root">>) },
        c \in ReportCounts }

\* Both phases are over and self.valid_urls holds these records, in the
\* order in which the operations appended them.
InitReport == \E records \in ListsUpTo(ReportRecords, MaxList) : AtReport(records)

SpecReport == InitReport /\ [][NextDedup]_vars

(* ------------- exceptions raised inside a per-URL operation ------------ *)
\* Faulty variant: the domain's permit is kept when the block is left.
LeaveDomain_leak(d) == UNCHANGED domain_semaphores

\* "async with domain_semaphore" left by an exception
LeaveDomain(d) ==
    domain_semaphores' = [domain_semaphores EXCEPT ![d] = @ + 1]

\* validate_single_url: the dispatch sleep has ended, the memory is read and
\* the candidate list built, and a statement before the first attempt (the
\* print of line 318 or 322) raises.  The exception leaves "async with
\* domain_semaphore" and reaches "except Exception" inside "async with
\* semaphore": error-path delay update, then the handler sleeps.
Throw(t) ==
    LET d == get_domain_from_url(urls[t]) IN
    /\ phase = "phase1" /\ pc[t] = "delay"
    /\ throws < MaxThrows
    /\ throws' = throws + 1
    /\ successful_approach' = [successful_approach EXCEPT ![t] = memory[d]]
    /\ approaches' =
          [approaches EXCEPT ![t] = SelectApproaches(memory[d], PLAYWRIGHT_AVAILABLE)]
    /\ LeaveDomain(d)
    /\ ErrorPathUpdate(d)
    /\ pc' = [pc EXCEPT ![t] = "except_delay"]
    /\ UNCHANGED << urls, PLAYWRIGHT_AVAILABLE, written, phase, semaphore, memory,
                    counter_lock, lock_waiters, counters, stores, cand,
                    had_error, attempts, locals2 >>
    /\ last_class' = "none"

\* The handler's sleep ends: counters under the counter lock, return
\* (False, 0, url), the global permit released.
AfterExceptDelay(t) ==
    /\ phase = "phase1" /\ pc[t] = "except_delay"
    /\ LockFree
    /\ processed_count' = processed_count + 1
    /\ error_count' = error_count + 1
    /\ pc' = [pc EXCEPT ![t] = "error"]
    /\ semaphore' = semaphore + 1
    /\ UNCHANGED << env, phase, domain_semaphores, domain_delays,
                    domain_error_counts, memory, counter_lock, lock_waiters,
                    valid_count, retry_processed, retry_success, stores,
                    successful_approach, approaches, cand, had_error, attempts,
                    locals2 >>
    /\ last_class' = "none"

\* retry_single_url: the error-path sleep has ended and the print of line
\* 439, inside "async with self._counter_lock", raises.  The exception
\* leaves the lock and the domain's block; the handler takes the lock again
\* (at once when nobody waits for it, else behind the waiters).
RetryThrow(i) ==
    LET d == retry_queue[i].domain IN
    /\ phase = "phase2" /\ rpc[i] = "error_delay"
    /\ throws < MaxThrows
    /\ throws' = throws + 1
    /\ LeaveDomain(d)
    /\ IF lock_waiters = <<>>
       THEN /\ retry_processed' = retry_processed + 1
            /\ counter_lock' = 0
            /\ semaphore' = semaphore + 1
            /\ rpc' = [rpc EXCEPT ![i] = "error"]
            /\ UNCHANGED lock_waiters
       ELSE /\ counter_lock' = Head(lock_waiters)
            /\ lock_waiters' = Append(Tail(lock_waiters), i)
            /\ rpc' = [rpc EXCEPT ![i] = "wait_except"]
            /\ UNCHANGED << retry_processed, semaphore >>
    /\ UNCHANGED << urls, PLAYWRIGHT_AVAILABLE, written, phase, domain_delays,
                    domain_error_counts, memory, processed_count, valid_count,
                    error_count, retry_success, stores, locals1, rpending,
                    rattempts >>
    /\ last_class' = "none"

\* The handler of retry_single_url is handed the counter lock.
RetryExceptGranted(i) ==
    /\ phase = "phase2" /\ rpc[i] = "wait_except"
    /\ counter_lock = i
    /\ retry_processed' = retry_processed + 1
    /\ ReleaseLock
    /\ semaphore' = semaphore + 1
    /\ rpc' = [rpc EXCEPT ![i] = "error"]
    /\ UNCHANGED << env, phase, domain_semaphores, domain_delays,
                    domain_error_counts, memory, processed_count, valid_count,
                    error_count, retry_success, stores, locals1, rpending,
                    rattempts >>
    /\ last_class' = "none"

NextThrow ==
    \/ Next
    \/ \E t \in Tasks : Throw(t) \/ AfterExceptDelay(t)
    \/ \E i \in Tasks : RetryThrow(i) \/ RetryExceptGranted(i)

\* The program with up to MaxThrows unexpected exceptions.
SpecThrow == Init /\ [][NextThrow]_vars

(* ------------- a run over distinct URLs with an empty memory ----------- *)
\* Distinct URLs, none a parent of another, over the two domains.
ScenarioUrls ==
    [t \in Tasks |-> IF t = NumUrls THEN Url("b.com", <<"r">>)
                     ELSE Url("a.com", <<ToString(t)>>)]

InitScenario ==
    /\ urls = ScenarioUrls
    /\ PLAYWRIGHT_AVAILABLE = FALSE
    /\ memory = [d \in Domains |-> None]
    /\ Fresh

SpecScenario == InitScenario /\ [][Next]_vars

(* ---------------- a run whose URLs are all of one domain --------------- *)
\* Distinct URLs of a.com: each failure of the run counts against one domain.
OneDomainUrls == [t \in Tasks |-> Url("a.com", <<ToString(t)>>)]

InitOneDomain ==
    /\ urls = OneDomainUrls
    /\ PLAYWRIGHT_AVAILABLE = FALSE
    /\ memory = [d \in Domains |-> None]
    /\ Fresh

\* The operations of the program.  With one domain and one permit in its
\* gate, the task inside the gate is the only one that asks for the counter
\* lock, so no task is ever handed the lock by another (RetryLockGranted and
\* RetryExceptGranted are never enabled).
NextOneDomain ==
    \/ \E t \in Tasks :
        \/ Dispatch(t)
        \/ AcquireDomain(t)
        \/ AfterDelay(t)
        \/ \E r \in HttpReplies \cup PageReplies : Respond(t, r)
        \/ AfterErrorDelay(t)
        \/ Throw(t)
        \/ AfterExceptDelay(t)
    \/ Phase1Complete
    \/ \E i \in Tasks :
        \/ RetryDispatch(i)
        \/ RetryAcquireDomain(i)
        \/ RetryAfterDelay(i)
        \/ \E r \in HttpReplies \cup PageReplies : RetryRespond(i, r)
        \/ RetryAfterErrorDelay(i)
        \/ RetryThrow(i)
    \/ Phase2Complete
    \/ Report

SpecOneDomain == InitOneDomain /\ [][NextOneDomain]_vars

(* ------------------- one attempt, for any reply ----------------------- *)
\* replies to an HTTP approach, with counts around the threshold
ClassifyReplies ==
    {Reply("http", st, TRUE, 0) : st \in Statuses \ {200}}
    \cup {Reply("http", 200, TRUE, c) :
              c \in {0, min_count - 1, min_count, min_count + 1}}
    \cup {Reply("http", 200, FALSE, 0)}
    \cup {Reply(k, 0, FALSE, 0) : k \in {"timeout", "client_error"}}

\* _try_approach(session, url, 'simple') called once for slot t and answered
\* with r: the reply is kept next to what the call returned.
Classify(t, r) ==
    /\ attempts[t] = <<>>
    /\ rpending' = [rpending EXCEPT ![t] = r]
    /\ attempts' = [attempts EXCEPT ![t] = <<Attempt("simple", r)>>]
    /\ UNCHANGED << env, phase, shared, counters, stores, pc,
                    successful_approach, approaches, cand, had_error, rpc,
                    rattempts, history >>

NextClassify == \E t \in Tasks : \E r \in ClassifyReplies : Classify(t, r)

SpecClassify == InitScenario /\ [][NextClassify]_vars

(* ---------------- the adaptive delay under any update order ------------ *)
\* adaptive_delay_for_domain applied to any domain in any order, with
\* had_error chosen freely: the delay arithmetic on its own.
DelayOnError(d) ==
    /\ domain_error_counts[d] < MaxDelayErrors
    /\ ErrorPathUpdate(d)
    /\ UNCHANGED << env, phase, semaphore, domain_semaphores, memory,
                    counter_lock, lock_waiters, counters, stores, locals1,
                    locals2, history >>

DelayOnSuccess(d) ==
    /\ SuccessPathUpdate(d)
    /\ UNCHANGED << env, phase, semaphore, domain_semaphores, memory,
                    counter_lock, lock_waiters, counters, stores, locals1,
                    locals2, history >>

NextDelay == \E d \in Domains : DelayOnError(d) \/ DelayOnSuccess(d)

SpecDelay == Init /\ [][NextDelay]_vars

(* ------------------------------ vocabulary ----------------------------- *)
DomainOf(t) == get_domain_from_url(urls[t])
\* the task has read the memory and built its candidate list
HasRead(t) == pc[t] \notin {"pending", "wait_domain", "delay"}
Failed1 == {t \in Tasks : pc[t] = "failed"}

\* attempts in flight against URLs of domain d, both phases
InFlight(d) ==
    Cardinality({t \in Tasks : pc[t] = "attempt" /\ DomainOf(t) = d})
    + Cardinality({i \in Tasks : rpc[i] = "attempt" /\ retry_queue[i].domain = d})

\* per-URL operations inside "async with semaphore", both phases
GateHolders1 ==
    {t \in Tasks : pc[t] \in {"wait_domain", "delay", "attempt", "error_delay",
                               "except_delay"}}
GateHolders2 ==
    {i \in Tasks : rpc[i] \in {"wait_domain", "delay", "attempt", "wait_inner",
                               "wait_outer", "error_delay", "wait_except"}}
GlobalInFlight == Cardinality(GateHolders1) + Cardinality(GateHolders2)

\* per-URL operations inside "async with domain_semaphore" of domain d
DomainHolders1(d) ==
    {t \in Tasks : /\ pc[t] \in {"delay", "attempt", "error_delay"}
                   /\ DomainOf(t) = d}
DomainHolders2(d) ==
    {i \in Tasks : /\ rpc[i] \in {"delay", "attempt", "wait_inner", "wait_outer",
                                   "error_delay"}
                   /\ retry_queue[i].domain = d}
\* asyncio.gather of the current phase has returned
BatchComplete ==
    \/ phase = "report"
    \/ phase = "phase2" /\ \A i \in Tasks : rpc[i] \in {"pending", "none"}

(* -------------------------------- claims ------------------------------- *)
\* C1: in every reachable state, for every domain d, the number of strategy
\* attempts in flight against URLs of d (phase 1 and phase 2) is at most
\* max_domain_concurrent.
C1_PerDomainInFlight ==
    \A d \in Domains : InFlight(d) <= max_domain_concurrent

\* C1 witness: a.com's gate is full with an attempt in flight while another
\* a.com task is blocked on it.
C1_Witness ==
    /\ InFlight("a.com") = max_domain_concurrent
    /\ \E t \in Tasks : pc[t] = "wait_domain" /\ DomainOf(t) = "a.com"

\* C2: in every reachable state the number of per-URL operations holding the
\* global gate, phase-1 validations plus phase-2 retries, is at most
\* max_concurrent, and the free permits are what the holders left.
C2_GlobalInFlight ==
    /\ GlobalInFlight <= max_concurrent
    /\ semaphore = max_concurrent - GlobalInFlight

\* C2 witness: in phase 2 the gate is full and a retry is kept waiting
\* (the same gate was full in phase 1 of that run, with a task waiting).
C2_Witness ==
    /\ phase = "phase2"
    /\ GlobalInFlight = max_concurrent
    /\ \E i \in Tasks : rpc[i] = "pending"

\* C3: every entry of the input list is retried at most once: the retry
\* queue holds exactly one entry per task that ended phase 1 Failed, every
\* retry task makes at most one attempt, and once phase 1 is over the queue
\* never changes (a phase-2 outcome puts nothing back).
C3_State ==
    /\ Len(retry_queue) = Cardinality(Failed1)
    /\ \A i \in Tasks : Len(rattempts[i]) <= 1
    /\ \A i \in Tasks : rpc[i] \in Terminal => Len(rattempts[i]) = 1
C3_Step == phase # "phase1" => retry_queue' = retry_queue
C3_RetriedAtMostOnce == []C3_State /\ [][C3_Step]_vars

\* C3 witness: the run is over and a retry that failed again stayed final.
C3_Witness ==
    /\ phase = "report"
    /\ \E i \in Tasks : rpc[i] = "failed" /\ Len(rattempts[i]) = 1

\* C4: every domain's delay stays in [base_delay, max_delay]; an error-path
\* update never lowers it and a success-path update never raises it.
C4_Bounds ==
    \A d \in Domains :
        base_delay <= domain_delays[d] /\ domain_delays[d] <= max_delay
C4_Step ==
    \A d \in Domains :
        /\ domain_error_counts'[d] # domain_error_counts[d]
              => domain_delays'[d] >= domain_delays[d]
        /\ domain_error_counts'[d] = domain_error_counts[d]
              => domain_delays'[d] <= domain_delays[d]
C4_DelayMonotoneBounded == []C4_Bounds /\ [][C4_Step]_vars

\* C4 witness: a domain whose backoff had reached its cap (five errors or
\* more) has decayed all the way back to the floor.
C4_Witness ==
    \E d \in Domains :
        /\ domain_error_counts[d] > BackoffCap
        /\ domain_delays[d] = base_delay

Available(a) == InSeq(a, all_approaches(PLAYWRIGHT_AVAILABLE))
Approaches1(t) == [k \in 1..Len(attempts[t]) |-> attempts[t][k].approach]

C6_AsStated ==
    \A t \in Tasks :
        HasRead(t) =>
            approaches[t] = IF successful_approach[t] # None
                            THEN <<successful_approach[t]>>
                            ELSE all_approaches(PLAYWRIGHT_AVAILABLE)

\* C6 amended: the candidate list is [memory.get(domain)] whenever the
\* memory holds an entry that names an available approach; otherwise (no
\* entry, or an unavailable name) it is [simple, proxy].
C6_CandidateList ==
    \A t \in Tasks :
        HasRead(t) =>
            \/ /\ successful_approach[t] # None
               /\ Available(successful_approach[t])
               /\ approaches[t] = <<successful_approach[t]>>
            \/ /\ successful_approach[t] = None \/ ~Available(successful_approach[t])
               /\ Len(approaches[t]) = 2
               /\ approaches[t][1] = "simple" /\ approaches[t][2] = "proxy"

\* what the memory held for the task's domain when the task read it: the
\* step of a task out of "delay" is that read
C6_ReadStep ==
    \A t \in Tasks :
        pc[t] = "delay" /\ pc'[t] # "delay"
            => successful_approach'[t] = memory[DomainOf(t)]
C6_CandidateListFromMemory == []C6_CandidateList /\ [][C6_ReadStep]_vars

\* C6 witness: with Playwright installed, one task was given a remembered
\* rendered approach and another, on a domain without entry, got
\* [simple, proxy].
C6_Witness ==
    /\ PLAYWRIGHT_AVAILABLE
    /\ \E t \in Tasks :
          HasRead(t) /\ approaches[t] = <<"playwright_headless_proxy">>
    /\ \E t \in Tasks :
          HasRead(t) /\ successful_approach[t] = None
          /\ approaches[t] = <<"simple", "proxy">>

\* C7: candidates are tried one after another in list order; a Success is
\* the last attempt of its task and makes the task's outcome Success; the
\* step that returns it sets the memory of the domain to that approach if
\* it differs from what the task had been given, and leaves it otherwise.
C7_State ==
    \A t \in Tasks :
        /\ Len(attempts[t]) <= Len(approaches[t])
        /\ \A k \in 1..Len(attempts[t]) :
              /\ attempts[t][k].approach = approaches[t][k]
              /\ attempts[t][k].ret = "true"
                    => k = Len(attempts[t]) /\ pc[t] = "success"
        /\ pc[t] = "success"
              => Len(attempts[t]) >= 1
                 /\ attempts[t][Len(attempts[t])].ret = "true"
C7_Step ==
    \A t \in Tasks :
        /\ pc[t] = "attempt" /\ pc'[t] = "success"
              => LET a == approaches[t][cand[t]] IN
                 /\ successful_approach[t] # a => memory'[DomainOf(t)] = a
                 /\ successful_approach[t] = a => memory' = memory
        /\ pc[t] = "success" => attempts'[t] = attempts[t] /\ pc'[t] = "success"
        /\ Len(attempts'[t]) <= Len(attempts[t]) + 1
C7_FirstSuccessStops == []C7_State /\ [][C7_Step]_vars

\* C7 witness: a task without remembered approach failed with simple,
\* succeeded with proxy, and proxy is now remembered for its domain.
C7_Witness ==
    \E t \in Tasks :
        /\ pc[t] = "success" /\ successful_approach[t] = None
        /\ Len(attempts[t]) = 2
        /\ memory[DomainOf(t)] = "proxy"

\* C8: an Invalid is the last attempt of its task and makes the task's
\* outcome Invalid; the step that returns it leaves the retry queue alone,
\* and the queue holds entries for the Failed tasks only.
C8_State ==
    /\ \A t \in Tasks :
          /\ \A k \in 1..Len(attempts[t]) :
                attempts[t][k].ret = "invalid"
                    => k = Len(attempts[t]) /\ pc[t] = "invalid"
          /\ pc[t] = "invalid"
                => Len(attempts[t]) >= 1
                   /\ attempts[t][Len(attempts[t])].ret = "invalid"
    /\ Len(retry_queue) = Cardinality(Failed1)
C8_Step ==
    \A t \in Tasks :
        /\ pc'[t] = "invalid" /\ pc[t] # "invalid" => retry_queue' = retry_queue
        /\ pc[t] = "invalid" => attempts'[t] = attempts[t] /\ pc'[t] = "invalid"
C8_FirstInvalidStops == []C8_State /\ [][C8_Step]_vars

\* C8 witness: a task with two candidates ended Invalid on the first one;
\* the second was never attempted.
C8_Witness ==
    \E t \in Tasks :
        /\ pc[t] = "invalid" /\ Len(approaches[t]) = 2 /\ Len(attempts[t]) = 1
        /\ phase = "report"

\* the phase-1 task whose candidate's reply this step handled
Replied(t) == phase = "phase1" /\ attempts'[t] # attempts[t]

\* C9 as stated: a ServerFatal reply to a phase-1 candidate that is not the
\* last one makes the loop go on to the next candidate.
C9_AsStated ==
    [][\A t \in Tasks :
          Replied(t) /\ last_class' = "ServerFatal"
          /\ cand[t] < Len(approaches[t])
              => pc'[t] = "attempt" /\ cand'[t] = cand[t] + 1]_vars

\* C9 amended: a ServerFatal reply to a phase-1 candidate ends the loop at
\* once with outcome Invalid: no later candidate is attempted.
C9_ServerFatalStops ==
    [][\A t \in Tasks :
          Replied(t) /\ last_class' = "ServerFatal"
              => pc'[t] = "invalid" /\ cand'[t] = cand[t]]_vars

\* C9 witness: the first of two candidates has just been answered with a
\* ServerFatal status and the task is over, Invalid.
C9_Witness ==
    /\ last_class = "ServerFatal"
    /\ \E t \in Tasks :
          /\ pc[t] = "invalid" /\ Len(attempts[t]) = 1 /\ Len(approaches[t]) = 2

\* C10: when every candidate of a task has returned Failed, that step
\* applies the error-path update to the task's domain; after the delay the
\* task appends exactly one entry {url, remembered approach or else first
\* candidate, domain} and its outcome is Failed; nothing else ever changes
\* the retry queue.
AllFailed(t) ==
    /\ Len(approaches[t]) >= 1 /\ Len(attempts[t]) = Len(approaches[t])
    /\ \A k \in 1..Len(attempts[t]) : attempts[t][k].ret = "false"
C10_State ==
    /\ \A t \in Tasks : AllFailed(t) <=> pc[t] \in {"error_delay", "failed"}
    /\ Len(retry_queue) = Cardinality(Failed1)
C10_Step ==
    /\ \A t \in Tasks :
          pc[t] = "attempt" /\ pc'[t] = "error_delay"
              => LET d == DomainOf(t) IN
                 /\ domain_error_counts'[d] = domain_error_counts[d] + 1
                 /\ domain_delays'[d] >= domain_delays[d]
                 /\ domain_delays'[d] =
                       IF domain_error_counts[d] >= BackoffCap
                       THEN 8 * DelayScale
                       ELSE base_delay * (2 ^ domain_error_counts[d])
    /\ \A t \in Tasks :
          pc'[t] = "failed" /\ pc[t] # "failed"
              => /\ pc[t] = "error_delay"
                 /\ retry_queue' = Append(retry_queue,
                       [url |-> urls[t],
                        approach |-> IF successful_approach[t] # None
                                     THEN successful_approach[t]
                                     ELSE approaches[t][1],
                        domain |-> DomainOf(t)])
    /\ retry_queue' # retry_queue
          => \E t \in Tasks : pc'[t] = "failed" /\ pc[t] # "failed"
C10_AllFailedQueued == []C10_State /\ [][C10_Step]_vars

\* C10 witness: a task with a remembered approach outside the available
\* list failed simple and proxy and sits in the queue under the remembered
\* name, its domain's error count raised.
C10_Witness ==
    \E t \in Tasks :
        /\ pc[t] = "failed" /\ successful_approach[t] # None
        /\ Len(attempts[t]) = 2
        /\ \E i \in 1..Len(retry_queue) :
              /\ retry_queue[i].url = urls[t]
              /\ retry_queue[i].approach = successful_approach[t]
        /\ domain_error_counts[DomainOf(t)] >= 1

\* C11: every per-URL operation gives back the permits it took on every
\* exit path, the exception path included, the domain's permit before the
\* global one: the free permits of each gate are always its capacity less
\* the operations inside its block, and once a phase's batch has completed
\* every gate is full again.
C11_PermitsReturned ==
    /\ semaphore = max_concurrent - GlobalInFlight
    /\ \A d \in Domains :
          domain_semaphores[d] =
              max_domain_concurrent - Cardinality(DomainHolders1(d))
                                    - Cardinality(DomainHolders2(d))
    /\ BatchComplete
          => /\ semaphore = max_concurrent
             /\ \A d \in Domains : domain_semaphores[d] = max_domain_concurrent

\* C11 witness: a run in which an exception was raised inside an operation
\* has completed both batches, with operations that ended Success, Invalid
\* or Failed next to the one that ended in its handler.
C11_Witness ==
    /\ phase = "report"
    /\ \E t \in Tasks : pc[t] = "error" \/ rpc[t] = "error"
    /\ \E t \in Tasks : pc[t] = "failed"
    /\ \E t \in Tasks : pc[t] \in {"success", "invalid"}

\* a retry task returns True in this step
RetrySucceeds(i) == rpc[i] # "success" /\ rpc'[i] = "success"
\* the records this step appends to valid_urls
Added == SubSeq(valid_urls', Len(valid_urls) + 1, Len(valid_urls'))

\* C12 as stated: a retry that returns Success adds the URL to the result
\* store and, when the memory holds no entry for its domain, writes the
\* retry's approach into the memory for that domain.
C12_AsStated ==
    [][\A i \in Tasks :
          RetrySucceeds(i)
              => /\ \E k \in 1..Len(valid_urls') :
                       valid_urls'[k].url = retry_queue[i].url
                 /\ memory[retry_queue[i].domain] = None
                       => memory'[retry_queue[i].domain] = retry_queue[i].approach]_vars

\* C12 amended: a retry that returns Success appends the URL, with the
\* retry's approach and a count at or above the threshold, to the result
\* store and leaves the memory as it is; no step of phase 2 writes the memory.
C12_RetrySuccessStored ==
    [][/\ \A i \in Tasks :
             RetrySucceeds(i)
                 => /\ Len(valid_urls') > Len(valid_urls)
                    /\ SubSeq(valid_urls', 1, Len(valid_urls)) = valid_urls
                    /\ \A k \in 1..Len(Added) :
                          /\ Added[k].url = retry_queue[i].url
                          /\ Added[k].approach = retry_queue[i].approach
                          /\ Added[k].count >= min_count
                    /\ memory' = memory
       /\ phase = "phase2" => memory' = memory]_vars

\* C12 witness: a retry has returned Success for a domain that has no entry
\* in the memory, and its URL is in the result store.
C12_Witness ==
    \E i \in Tasks :
        /\ rpc[i] = "success"
        /\ memory[retry_queue[i].domain] = None
        /\ \E k \in 1..Len(valid_urls) : valid_urls[k].url = retry_queue[i].url

\* the retry of the phase-1 task t has returned True
Recovered(t) ==
    /\ pc[t] = "failed"
    /\ \E i \in 1..Len(retry_queue) :
          retry_queue[i].url = urls[t] /\ rpc[i] = "success"
\* The scenario's run has ended: distinct URLs over two domains, some of
\* them Failed in phase 1 and all of these recovered in phase 2, all others
\* Success in phase 1, each domain with a phase-1 Success.
ScenarioRun ==
    /\ phase = "done"
    /\ \A t \in Tasks : pc[t] = "success" \/ Recovered(t)
    /\ Failed1 # {}
    /\ \A d \in Domains : \E t \in Tasks : DomainOf(t) = d /\ pc[t] = "success"
MemoryEntries == {d \in Domains : memory[d] # None}

\* C13: in the scenario (every URL of the list Success, some of them only
\* in phase 2) the final result store has exactly one record per URL, the
\* valid counter agrees with it, the queue held exactly the URLs that
\* Failed in phase 1, and the memory has exactly two entries.
C13_Scenario ==
    ScenarioRun
        => /\ Len(retry_queue) = Cardinality(Failed1)
           /\ Len(valid_urls) = NumUrls
           /\ valid_count = NumUrls
           /\ Cardinality(MemoryEntries) = 2

\* C14: a URL whose candidate is answered with a ServerFatal status is
\* classified Invalid by the step that handles the reply, and that step
\* leaves the valid results, the retry queue and its domain's error count
\* and delay as they are; an Invalid URL stays Invalid and is in neither the
\* valid results nor the retry queue.
C14_State ==
    \A t \in Tasks :
        pc[t] = "invalid"
            => /\ \A i \in 1..Len(retry_queue) : retry_queue[i].url # urls[t]
               /\ \A k \in 1..Len(valid_urls) : valid_urls[k].url # urls[t]
C14_Step ==
    \A t \in Tasks :
        /\ Replied(t) /\ last_class' = "ServerFatal"
              => /\ pc'[t] = "invalid"
                 /\ valid_urls' = valid_urls /\ valid_count' = valid_count
                 /\ retry_queue' = retry_queue
                 /\ domain_error_counts' = domain_error_counts
                 /\ domain_delays' = domain_delays
        /\ pc[t] = "invalid" => pc'[t] = "invalid"
C14_ServerFatalInvalid == []C14_State /\ [][C14_Step]_vars

\* C14 witness: a URL has just been answered with a ServerFatal status on a
\* domain whose error count another URL's failure had raised; it is Invalid
\* and the count is still 1.
C14_Witness ==
    /\ last_class = "ServerFatal"
    /\ \E t \in Tasks :
          /\ pc[t] = "invalid"
          /\ domain_error_counts[DomainOf(t)] = 1
          /\ domain_delays[DomainOf(t)] = base_delay

\* C15: one attempt is classified by a fixed policy: status 200 with a
\* count at or above the threshold is Success (also a count equal to the
\* threshold); status 200 with a lower count is Invalid; status 429, 502,
\* 503, 504, a timeout or a connection error is Failed; any other status
\* outside 200..299 is Invalid.
C15_Policy ==
    \A t \in Tasks :
        attempts[t] # <<>> =>
            LET r == rpending[t]
                ret == attempts[t][1].ret
                counted == r.kind = "http" /\ r.status = 200 /\ r.readable
            IN
            /\ counted /\ r.count >= min_count => ret = "true"
            /\ counted /\ r.count < min_count => ret = "invalid"
            /\ r.kind = "http" /\ r.status \in {429, 502, 503, 504} => ret = "false"
            /\ r.kind \in {"timeout", "client_error"} => ret = "false"
            /\ r.kind = "http" /\ r.status \notin 200..299
                  /\ r.status \notin {429, 502, 503, 504} => ret = "invalid"

\* C15 witness: a 200 reply with a count exactly at the threshold was
\* classified Success, next to a 503 classified Failed and a 404 Invalid.
C15_Witness ==
    /\ \E t \in Tasks :
          /\ attempts[t] # <<>> /\ rpending[t].status = 200
          /\ rpending[t].count = min_count /\ attempts[t][1].ret = "true"
    /\ \E t \in Tasks :
          /\ attempts[t] # <<>> /\ rpending[t].status = 503
          /\ attempts[t][1].ret = "false"
    /\ \E t \in Tasks :
          /\ attempts[t] # <<>> /\ rpending[t].status = 404
          /\ attempts[t][1].ret = "invalid"

\* How far a coroutine is from its return, by position; a step of the run
\* moves one coroutine nearer to its return or moves the run to its next
\* phase.
Rank1(t) ==
    CASE pc[t] = "pending" -> 7
      [] pc[t] = "wait_domain" -> 6
      [] pc[t] = "delay" -> 5
      [] pc[t] = "attempt" -> 3 + (Len(approaches[t]) - cand[t])
      [] pc[t] \in {"error_delay", "except_delay"} -> 1
      [] OTHER -> 0
Rank2(i) ==
    CASE rpc[i] = "pending" -> 8
      [] rpc[i] = "wait_domain" -> 7
      [] rpc[i] = "delay" -> 6
      [] rpc[i] = "attempt" -> 5
      [] rpc[i] = "wait_inner" -> 4
      [] rpc[i] = "wait_outer" -> 3
      [] rpc[i] = "error_delay" -> 2
      [] rpc[i] = "wait_except" -> 1
      [] OTHER -> 0
RECURSIVE SumTo(_, _)
SumTo(f, n) == IF n = 0 THEN 0 ELSE f[n] + SumTo(f, n - 1)
PhaseRank ==
    CASE phase = "phase1" -> 3 [] phase = "phase2" -> 2
      [] phase = "report" -> 1 [] OTHER -> 0
Remaining ==
    PhaseRank * 16 * NumUrls
    + SumTo([t \in Tasks |-> Rank1(t) + Rank2(t)], NumUrls)

\* C16: every per-URL operation of both phases returns a result, also the
\* one inside which an unexpected exception is raised, so whatever the
\* outcomes of the operations the run is never stuck before its report:
\* some coroutine can always go on, every step brings the run nearer to its
\* end, and the report is reached only with every operation returned.
\* a sleep is running or a request is in flight (the coroutine goes on
\* when it ends, whatever the gates and the lock), or the batches are over
\* and the report is being made
Running ==
    \/ phase = "report"
    \/ phase = "phase1" /\ \E t \in Tasks : pc[t] = "delay"
    \/ phase = "phase2"
          /\ \E i \in Tasks : rpc[i] \in {"delay", "attempt", "error_delay"}
C16_State ==
    /\ phase # "phase1" => \A t \in Tasks : pc[t] \in Returned
    /\ phase \in {"report", "done", "crashed"}
          => \A i \in Tasks : rpc[i] \in Returned \cup {"none"}
    /\ phase \notin {"done", "crashed"} => Running \/ ENABLED NextThrow
C16_Step == Remaining' < Remaining
C16_FailureIsolation == []C16_State /\ [][C16_Step]_vars

\* C16 witness: the run has ended; one retry raised an exception and ended
\* in its handler, another URL was recovered by its retry, another ended
\* Success in phase 1.
C16_Witness ==
    /\ phase = "done"
    /\ \E i \in Tasks : rpc[i] = "error"
    /\ \E i \in Tasks : rpc[i] = "success"
    /\ \E t \in Tasks : pc[t] = "success"

(* ------------------------------- C17 ----------------------------------- *)
\* the step is taken by retry task i
StepOf(i) == rpc'[i] # rpc[i]

\* the counter lock is held (or has been handed over) and the step is taken
\* by another task than its holder
OutsideLock == counter_lock # 0 /\ ~StepOf(counter_lock)

\* C17 as stated: every mutation of shared run state (counters, per-domain
\* delay and error count, retry queue, result list, Strategy Memory) is made
\* by the task that holds the counter lock, so no task changes any of them
\* while another task holds the lock.
C17_AsStated ==
    [][OutsideLock
         => UNCHANGED << counters, stores, domain_delays, domain_error_counts,
                         memory >>]_vars

\* C17 (amended): every mutation of the processed/valid/error/retry
\* counters, of the retry queue and of the result list is made by the task
\* that holds the counter lock: while one task holds the lock no other task
\* changes any of them, and a task that changes them leaves the lock free or
\* hands it on.
C17_State ==
    /\ counter_lock # 0 => rpc[counter_lock] \in {"wait_inner", "wait_outer",
                                                  "error_delay", "wait_except"}
    /\ \A i \in Tasks :
          rpc[i] \in {"wait_inner", "wait_outer", "wait_except"}
             => counter_lock = i \/ InSeq(i, lock_waiters)
C17_Step == OutsideLock => UNCHANGED << counters, stores >>
C17_CountersUnderLock == []C17_State /\ [][C17_Step]_vars

\* C17 witness: one retry task holds the lock through its error-path sleep
\* and another, whose reply has arrived, waits for the lock before it
\* touches the counters.
C17_Witness ==
    \E i, j \in Tasks :
        /\ i # j
        /\ counter_lock = i /\ rpc[i] = "error_delay"
        /\ rpc[j] \in {"wait_inner", "wait_outer"}
        /\ InSeq(j, lock_waiters)

(* ------------------------------- C18 ----------------------------------- *)
\* a phase-1 task sends a candidate's request in this step
AttemptStarts1(t) ==
    pc'[t] = "attempt" /\ (pc[t] # "attempt" \/ cand'[t] # cand[t])
\* a retry task sends its request, or _try_approach returns at once for an
\* approach it does not support
AttemptStarts2(i) ==
    \/ rpc'[i] = "attempt" /\ rpc[i] # "attempt"
    \/ Len(rattempts'[i]) > Len(rattempts[i]) /\ rpc[i] # "attempt"

\* a task waiting its admission delay or with a request in flight holds a
\* permit of its host gate
C18_State ==
    /\ \A t \in Tasks :
          pc[t] \in {"delay", "attempt"}
             => domain_semaphores[DomainOf(t)] < max_domain_concurrent
    /\ \A i \in Tasks :
          rpc[i] \in {"delay", "attempt"}
             => domain_semaphores[retry_queue[i].domain] < max_domain_concurrent

\* C18 as stated: every attempt of phase 1 (each candidate of the loop) and
\* of phase 2 starts when the task, inside its host gate, ends an adaptive
\* delay wait, so a wait has completed since the task's previous attempt.
C18_AsStated ==
    [][/\ \A t \in Tasks : AttemptStarts1(t) => pc[t] = "delay"
       /\ \A i \in Tasks : AttemptStarts2(i) => rpc[i] = "delay"]_vars

\* C18 (amended): the first attempt of every per-URL operation, in phase 1
\* and in phase 2, starts when the task, inside its host gate, ends the
\* adaptive delay wait; each later candidate of the phase-1 loop is sent in
\* the step in which the previous candidate failed, with no wait between.
C18_Step ==
    /\ \A t \in Tasks :
          AttemptStarts1(t)
             => IF cand'[t] = 1
                THEN pc[t] = "delay" /\ attempts[t] = <<>>
                ELSE /\ pc[t] = "attempt" /\ cand'[t] = cand[t] + 1
                     /\ Len(attempts'[t]) = cand[t]
                     /\ attempts'[t][cand[t]].ret = "false"
    /\ \A i \in Tasks :
          AttemptStarts2(i) => rpc[i] = "delay" /\ rattempts[i] = <<>>
C18_WaitBeforeFirstAttempt == []C18_State /\ [][C18_Step]_vars

\* C18 witness: a retry's request is in flight in phase 2, for a URL whose
\* phase-1 operation sent two candidates after its one wait.
C18_Witness ==
    /\ phase = "phase2"
    /\ \E i \in Tasks :
          /\ rpc[i] = "attempt"
          /\ \E t \in Tasks : urls[t] = retry_queue[i].url /\ Len(attempts[t]) = 2

(* ------------------------------- C19 ----------------------------------- *)
\* some attempt of the sequence returned False (Failed)
HasFailed(as) == \E k \in 1..Len(as) : as[k].ret = "false"

\* the operations on domain d that have ended after a Failed attempt
EndedAfterFailure1(d) ==
    { t \in Tasks : DomainOf(t) = d /\ pc[t] \in Terminal /\ HasFailed(attempts[t]) }
EndedAfterFailure2(d) ==
    { i \in Tasks : /\ rpc[i] \in Terminal
                    /\ retry_queue[i].domain = d
                    /\ HasFailed(rattempts[i]) }

\* the operations on domain d that end Failed: past their error-path update
EndFailed1(d) ==
    { t \in Tasks : DomainOf(t) = d /\ pc[t] \in {"error_delay", "failed"} }
EndFailed2(d) ==
    { i \in Tasks : rpc[i] \in {"error_delay", "failed"}
                    /\ retry_queue[i].domain = d }

C19_State ==
    /\ \A d \in Domains :
          domain_error_counts[d] = Cardinality(EndFailed1(d))
                                     + Cardinality(EndFailed2(d))
    /\ \A t \in Tasks :
          pc[t] \in {"error_delay", "failed"}
             <=> /\ Len(attempts[t]) = Len(approaches[t]) /\ attempts[t] # <<>>
                 /\ \A k \in 1..Len(attempts[t]) : attempts[t][k].ret = "false"
    /\ \A i \in Tasks :
          rpc[i] = "failed" => HasFailed(rattempts[i])
C19_Step ==
    /\ \A d \in Domains :
          domain_error_counts'[d] # domain_error_counts[d]
             => /\ domain_error_counts'[d] = domain_error_counts[d] + 1
                /\ domain_delays'[d] = ErrorDelay(domain_error_counts'[d])
    /\ last_class' \in {"Transport", "ServerRetryable", "StrategyUnsupported"}
          => \E t \in Tasks :
                \/ Len(attempts'[t]) > Len(attempts[t])
                      /\ attempts'[t][Len(attempts'[t])].ret = "false"
                \/ Len(rattempts'[t]) > Len(rattempts[t])
                      /\ rattempts'[t][Len(rattempts'[t])].ret = "false"
Norm(u) == clean_url(UrlTokens(u))
\* u's normalized form starts with v's normalized form + "/"
ChildOf(u, v) == StartsWith(Norm(u), Append(Norm(v), "/"))
\* the URLs of the valid list before and after the deduplication
ValidBefore == { valid_urls[k].url : k \in 1..Len(valid_urls) }
ValidAfter == { valid_urls'[k].url : k \in 1..Len(valid_urls') }

\* C20: the deduplication of the valid list keeps a subset of it; a URL is
\* dropped exactly when its normalized form starts with the normalized form
\* + "/" of a kept URL that has at least one path segment, so a kept URL
\* with a path segment excludes all its children, a URL with no path segment
\* excludes nothing and no exclusion is owed to an excluded URL; for
\* {https://x/a, https://x/a/b, https://x/a/c, https://x/root} the result is
\* {https://x/a, https://x/root}.
C20_Step ==
    phase = "report" /\ phase' = "done"
       => /\ ValidAfter \subseteq ValidBefore
          /\ \A u \in ValidBefore :
                u \notin ValidAfter
                   <=> \E v \in ValidAfter :
                          path_segments(Norm(v)) >= 1 /\ ChildOf(u, v)
          /\ ValidBefore = { Url("x", <<"a">>), Url("x", <<"a", "b">>),
                              Url("x", <<"a", "c">>), Url("x", <<"root">>) }
                => ValidAfter = { Url("x", <<"a">>), Url("x", <<"root">>) }
          /\ valid_count' = Len(valid_urls')
C20_ParentChildDedup == [][C20_Step]_vars

\* C20 witness: the deduplication has run on a list of four valid URLs, the
\* homepage, two categories and a child of one: the homepage and the
\* categories are kept and the child is gone.
C20_Witness ==
    /\ phase = "done"
    /\ processed_count = 4
    /\ Len(valid_urls) = 3
    /\ { valid_urls[k].url : k \in 1..Len(valid_urls) }
          = { Url("x", <<>>), Url("x", <<"a">>), Url("x", <<"root">>) }

(* ------------------------------- C21 ----------------------------------- *)
\* the records of a list, with their multiplicities
BagOf(l) ==
    LET S == SeqToSet(l) IN
    [x \in S |-> Cardinality({k \in 1..Len(l) : l[k] = x})]

\* C21: the report lists the valid results in non-increasing order of match
\* count: the count of each result line written is >= the count of the line
\* after it, and the lines written are the records of the result store.
C21_ReportSorted ==
    /\ \A k \in 1..(Len(written) - 1) : written[k].count >= written[k + 1].count
    /\ phase = "done" => BagOf(written) = BagOf(valid_urls)

\* C21 witness: the report is written for a result store whose records were
\* appended with a lower count before a higher one, so the file order is not
\* the store's order.
C21_Witness ==
    /\ phase = "done"
    /\ Len(written) >= 3
    /\ valid_urls[1].count < valid_urls[2].count
    /\ written # valid_urls

(* ------------------------------- C22 ----------------------------------- *)
\* a task on domain d starts an error-path delay in this step
ErrorUpdateOn(d) ==
    \/ \E t \in Tasks : /\ DomainOf(t) = d /\ pc'[t] # pc[t]
                         /\ pc'[t] \in {"error_delay", "except_delay"}
    \/ \E i \in Tasks : /\ rpc'[i] # rpc[i] /\ rpc'[i] = "error_delay"
                         /\ retry_queue[i].domain = d
\* a task on domain d enters its host gate and starts the admission delay
SuccessUpdateOn(d) ==
    \/ \E t \in Tasks : DomainOf(t) = d /\ pc'[t] # pc[t] /\ pc'[t] = "delay"
    \/ \E i \in Tasks : /\ rpc'[i] # rpc[i] /\ rpc'[i] = "delay"
                         /\ retry_queue[i].domain = d

\* C22: an error-path update does errors += 1 and sets the delay to
\* min(B * 2^min(errors - 1, 4), MAX); a success-path update sets the delay
\* to max(delay * 0.8, B) and leaves errors unchanged; no other step changes
\* a domain's delay or error count.
C22_Step ==
    \A d \in Domains :
        LET errors == domain_error_counts[d]
            delay == domain_delays[d]
        IN CASE ErrorUpdateOn(d) ->
                   /\ domain_error_counts'[d] = errors + 1
                   /\ domain_delays'[d] =
                         Min(base_delay * (2 ^ Min((errors + 1) - 1, 4)), max_delay)
             [] SuccessUpdateOn(d) ->
                   /\ domain_error_counts'[d] = errors
                   /\ domain_delays'[d] = Max((delay * 8) \div 10, base_delay)
             [] OTHER ->
                   /\ domain_error_counts'[d] = errors
                   /\ domain_delays'[d] = delay
C22_BackoffArithmetic == [][C22_Step]_vars

\* C22 witness: a domain has had six errors, the last one past the cap of
\* the exponent: its delay is 16 B, where 32 B would exceed MAX.
C22_Witness ==
    \E d \in Domains :
        /\ domain_error_counts[d] = BackoffCap + 2
        /\ domain_delays[d] = 16 * base_delay
        /\ 32 * base_delay > max_delay

(* ------------------------------- C23 ----------------------------------- *)
\* the tasks inside the global gate, and those inside the host gate of d
InGlobal == GateHolders1 \cup GateHolders2
InHost(d) == DomainHolders1(d) \cup DomainHolders2(d)

\* C23: deadlock freedom.  Every task inside a host gate is inside the
\* global gate (the global gate is acquired first), a task asks for the
\* counter lock only inside both gates, and as long as the batches are not
\* over either an attempt or a delay wait is under way or some task can take
\* a step; every step brings the end of the run nearer, so each phase's
\* batch completes with every task finished.
C23_State ==
    /\ \A d \in Domains : InHost(d) \subseteq InGlobal
    /\ \A i \in Tasks : InSeq(i, lock_waiters) \/ counter_lock = i
          => i \in InGlobal /\ i \in InHost(retry_queue[i].domain)
    /\ phase \in {"phase1", "phase2"} => Running \/ ENABLED Next
    /\ phase = "phase2" => \A t \in Tasks : pc[t] \in Terminal
    /\ phase = "report" => \A i \in Tasks : rpc[i] \in Terminal \cup {"none"}
C23_Step == Remaining' < Remaining
C23_DeadlockFree == []C23_State /\ [][C23_Step]_vars

\* C23 witness: both gates are contended at once: one task has a request in
\* flight, a second holds the other global permit and waits for the host
\* gate the first is in, a third waits for the global gate.
C23_Witness ==
    \E t, u, v \in Tasks :
        /\ pc[t] = "attempt" /\ pc[u] = "wait_domain" /\ pc[v] = "pending"
        /\ DomainOf(t) = DomainOf(u)
        /\ semaphore = 0 /\ domain_semaphores[DomainOf(t)] = 0

(* ------------------------------- C24 ----------------------------------- *)
\* a retry task exists: process_all_urls_async has built retry_tasks
RetryStarted == \E i \in Tasks : rpc[i] # "none"

\* C24: phase ordering.  No retry task exists, and no retry attempt has been
\* made, unless every phase-1 task has returned with its outcome; from the
\* start of phase 2 on the retry queue is not modified, and one retry task
\* exists for each of its entries.
C24_State ==
    /\ RetryStarted \/ (\E i \in Tasks : rattempts[i] # <<>>)
          => /\ phase # "phase1"
             /\ \A t \in Tasks : pc[t] \in Returned
    /\ phase = "phase2"
          => \A i \in Tasks : rpc[i] # "none" <=> i <= Len(retry_queue)
C24_Step ==
    /\ phase # "phase1" => retry_queue' = retry_queue
    /\ phase # "phase1" => pc' = pc
C24_PhaseOrdering == []C24_State /\ [][C24_Step]_vars

\* C24 witness: in phase 2 a retry's request is in flight while another
\* queue entry still waits; phase 1 ended with one operation in its
\* exception handler.
C24_Witness ==
    /\ phase = "phase2"
    /\ Len(retry_queue) >= 2
    /\ \E i, j \in Tasks : rpc[i] = "attempt" /\ rpc[j] = "pending"
    /\ \E t \in Tasks : pc[t] = "error"

(* ------------------------------- C25 ----------------------------------- *)
\* retry j, on domain d, fails in this step, and this is the first error on
\* d since a success on d: the operations inside d's gate run one at a time,
\* another retry on d has ended Success and no other retry on d has failed
FirstErrorAfterSuccess(j, d) ==
    /\ max_domain_concurrent = 1
    /\ phase = "phase2"
    /\ rpc[j] # "error_delay" /\ rpc'[j] = "error_delay"
    /\ retry_queue[j].domain = d
    /\ \E i \in Tasks \ {j} : rpc[i] = "success" /\ retry_queue[i].domain = d
    /\ \A k \in Tasks \ {j} :
          rpc[k] # "none" /\ retry_queue[k].domain = d
             => rpc[k] \in {"success", "invalid", "pending", "wait_domain"}

C26_Normalized ==
    \A k \in 1..Len(valid_urls) :
        LET u == valid_urls[k].url
            n == Norm(u)
        IN /\ n # <<>> /\ n[Len(n)] # "/"
           /\ \A j \in 1..Len(n) : n[j] \notin {"#", "?"}
           /\ n = UrlTokens(Url(u.netloc, u.path))

(* ------------------------------- C27 ----------------------------------- *)
\* the per-URL operations whose outcome is Success
Succeeded1 == {t \in Tasks : pc[t] = "success"}
Succeeded2 == {i \in Tasks : rpc[i] = "success"}

\* C27: when both batches are over, before the deduplication, the result
\* store holds exactly one record for each URL task that ended Success, in
\* phase 1 or in phase 2, and the valid counter equals the number of records.
C27_OneRecordPerSuccess ==
    phase = "report"
       => /\ Len(valid_urls) = Cardinality(Succeeded1) + Cardinality(Succeeded2)
          /\ valid_count = Len(valid_urls)
          /\ \A k \in 1..Len(valid_urls) :
                \/ \E t \in Succeeded1 : valid_urls[k].url = urls[t]
                \/ \E i \in Succeeded2 : valid_urls[k].url = retry_queue[i].url

(* ------------------------------- C28 ----------------------------------- *)
\* the phase-1 batch has completed and no retry has had its reply yet
Phase1Over == phase # "phase1" /\ \A i \in Tasks : rattempts[i] = <<>>

\* C28: the processed counter counts each input URL exactly once: it never
\* exceeds the number of input URLs, and when the phase-1 batch has completed
\* it equals that number, whatever the outcomes.
C28_ProcessedOncePerUrl ==
    /\ processed_count <= NumUrls
    /\ Phase1Over => processed_count = NumUrls

(* ------------------------------- C29 ----------------------------------- *)
\* C29: the strategy stored in a retry-queue entry is one of the strategies
\* that were attempted for that URL in phase 1, whatever the Strategy Memory
\* held at dispatch.
C29_QueuedApproachAttempted ==
    \A i \in 1..Len(retry_queue) :
        \E t \in Tasks :
            /\ pc[t] = "failed" /\ urls[t] = retry_queue[i].url
            /\ InSeq(retry_queue[i].approach, Approaches1(t))

(* ------------------------------- C30 ----------------------------------- *)
\* the retry task is suspended in a delay wait or with a request in flight
Suspended2(i) == rpc[i] \in {"delay", "attempt", "error_delay"}

\* C30: the counter lock is never held across a suspension point: while any
\* phase-1 task is under way the lock is free between steps, and no retry
\* task holds it while it waits a delay or has a request in flight.
C30_LockNotHeldSuspended ==
    /\ phase = "phase1" => counter_lock = 0
    /\ \A i \in Tasks : counter_lock = i => ~Suspended2(i)
====
